---- MODULE Spec2Model ----
(***************************************************************************)
(* Token acquisition of the Azure Key Vault FlexVolume driver              *)
(* (azurekeyvault-flexvolume/oauth.go): GetManagementToken,                *)
(* GetKeyvaultToken, GetServicePrincipalToken and ParseAzureEnvironment,   *)
(* together with the NMI broker the managed-identity path talks to.        *)
(*                                                                         *)
(* Strings the code only compares or forwards are TLA+ strings.  Endpoint  *)
(* strings, which the code indexes and slices, are sequences of symbols:   *)
(* the symbol "/" is the character '/', every other symbol is a non-empty  *)
(* run of characters that does not end in '/'.                             *)
(***************************************************************************)
EXTENDS Integers, Sequences, FiniteSets, TLC

\* Longest endpoint string (in symbols) an environment file may carry.
MaxLen == 2

Sep == "/"

EndpointAlphabet == {"v", Sep}

EndpointStrings == UNION {[1..k -> EndpointAlphabet] : k \in 0..MaxLen}

\* ResourceManagerEndpoint values an environment file may carry.
ManagementEndpoints == {<<>>, <<"v">>, <<"m", Sep>>}

nmiendpoint == "http://localhost:2579/host/token/"

podnameheader == "podname"

podnsheader == "podns"

StatusOK == 200

\* Status codes the broker may answer with.
StatusCodes == {StatusOK, 404, 500}

----------------------------------------------------------------------------
(* Values *)

Err(kind, name, code) == [kind |-> kind, name |-> name, code |-> code]

\* Go's nil error.
NoError == Err("nil", "", 0)

\* adal.Token: the access token, and ExpiresOn standing for the other fields.
Token(access, expires) == [AccessToken |-> access, ExpiresOn |-> expires]

ZeroToken == Token("", "")

\* A nil *adal.ServicePrincipalToken / a nil autorest.Authorizer.
NilSpt == [nil |-> TRUE, clientID |-> "", secret |-> "", resource |-> <<>>,
           token |-> ZeroToken, manual |-> FALSE]

NilOAuthConfig == [nil |-> TRUE, authority |-> <<>>, tenant |-> ""]

ZeroEnvironment == [Name |-> "", ResourceManagerEndpoint |-> <<>>,
                    KeyVaultEndpoint |-> <<>>, ActiveDirectoryEndpoint |-> <<>>]

PublicCloud == [Name |-> "AzurePublicCloud",
                ResourceManagerEndpoint |-> <<"https://management.azure.com", Sep>>,
                KeyVaultEndpoint |-> <<"https://vault.azure.net", Sep>>,
                ActiveDirectoryEndpoint |-> <<"https://login.microsoftonline.com", Sep>>]

ChinaCloud == [Name |-> "AzureChinaCloud",
               ResourceManagerEndpoint |-> <<"https://management.chinacloudapi.cn", Sep>>,
               KeyVaultEndpoint |-> <<"https://vault.azure.cn", Sep>>,
               ActiveDirectoryEndpoint |-> <<"https://login.chinacloudapi.cn", Sep>>]

\* The fixed table azure.EnvironmentFromName looks names up in.
environments == [n \in {"AZUREPUBLICCLOUD", "AZURECHINACLOUD"} |->
                   IF n = "AZUREPUBLICCLOUD" THEN PublicCloud ELSE ChinaCloud]

\* The name azure.EnvironmentFromName resolves from the environment file.
StackCloudName == "AZURESTACKCLOUD"

\* An environment file that cannot be read.
NoFile == [ZeroEnvironment EXCEPT !.Name = "<unreadable>"]

\* The environments a readable environment file may describe.
StackEnvironments ==
  {[Name |-> "AzureStackCloud", ResourceManagerEndpoint |-> m,
    KeyVaultEndpoint |-> k,
    ActiveDirectoryEndpoint |-> <<"https://login.stack.local", Sep>>] :
     m \in ManagementEndpoints, k \in EndpointStrings}

CloudNames == {"", "AZURECHINACLOUD", "unknown-xyz", StackCloudName}

\* Tenant ids url.Parse rejects (an invalid percent escape).
MalformedTenants == {"%zz"}

TenantIds == {"72f988bf", "%zz"}

ClientIDs == {"", "app1"}

ClientSecrets == {"", "s3cret"}

AccessTokens == {"", "tokA", "tokB"}

\* The response of the current call: none yet, the broker hangs, the
\* transport failed, or an HTTP response.  A body is read on status 200 only.
NoBody == [kind |-> "none", token |-> ZeroToken, clientid |-> ""]

NoResp == [kind |-> "none", status |-> 0, body |-> NoBody]

Hung == [kind |-> "hung", status |-> 0, body |-> NoBody]

TransportError == [kind |-> "transportError", status |-> 0, body |-> NoBody]

\* Bodies of a 200 response: unreadable, not JSON, the JSON literal null, or
\* a JSON object with the fields of NMIResponse.
Bodies ==
  {[NoBody EXCEPT !.kind = k] : k \in {"unreadable", "malformed", "null"}}
  \cup {[kind |-> "object", token |-> Token(a, x), clientid |-> c] :
          a \in AccessTokens, x \in {"", "1531959999"}, c \in {"", "abc"}}

HttpResponse(status, body) == [kind |-> "http", status |-> status, body |-> body]

NoRet == [authorizer |-> NilSpt, err |-> NoError]

NoPrev == [valid |-> FALSE, entry |-> "", resp |-> NoResp, ret |-> NoRet,
           sptCalled |-> FALSE, net |-> <<>>, stdout |-> <<>>, glog |-> <<>>]

----------------------------------------------------------------------------
VARIABLES
  config,       \* the arguments the caller passes to both entry points
  envFile,      \* the environment file azure.EnvironmentFromName may read
  pc,           \* "start", "clientDo" (blocked in client.Do), "returned", "panicked"
  entry,        \* the entry point of the current (or last) call
  env,          \* the environment ParseAzureEnvironment resolved
  sptCalled,    \* GetServicePrincipalToken has been called
  resource,     \* the resource argument of GetServicePrincipalToken
  oauthConfig,  \* the OAuth configuration the call constructed
  resp,         \* what client.Do got from the broker
  net,          \* outbound requests of the current call
  stdout,       \* what the current call printed with fmt.Printf
  glog,         \* what the current call logged with glog
  ret,          \* (authorizer, err) the entry point returned
  prev          \* the previous completed call, for comparing two calls

vars == <<config, envFile, pc, entry, env, sptCalled, resource, oauthConfig,
          resp, net, stdout, glog, ret, prev>>

----------------------------------------------------------------------------
(* Library calls, by their documented results *)

\* azure.EnvironmentFromName
EnvironmentFromName(name, file) ==
  IF name = StackCloudName
    THEN IF file = NoFile
           THEN [env |-> ZeroEnvironment, err |-> Err("EnvironmentFileError", "", 0)]
           ELSE [env |-> file, err |-> NoError]
    ELSE IF name \in DOMAIN environments
           THEN [env |-> environments[name], err |-> NoError]
           ELSE [env |-> ZeroEnvironment, err |-> Err("UnknownEnvironment", name, 0)]

\* adal.NewOAuthConfig: parses the endpoint and the tenant id as URLs.
NewOAuthConfig(activeDirectoryEndpoint, tenantId) ==
  IF activeDirectoryEndpoint = <<>> \/ tenantId \in MalformedTenants
    THEN [cfg |-> NilOAuthConfig, err |-> Err("OAuthConfigError", "", 0)]
    ELSE [cfg |-> [nil |-> FALSE, authority |-> activeDirectoryEndpoint,
                   tenant |-> tenantId],
          err |-> NoError]

\* adal.NewServicePrincipalToken: validates its parameters, contacts nobody.
NewServicePrincipalToken(cfg, clientID, secret, res) ==
  IF clientID = "" THEN [spt |-> NilSpt, err |-> Err("InvalidParameter", "clientID", 0)]
  ELSE IF secret = "" THEN [spt |-> NilSpt, err |-> Err("InvalidParameter", "secret", 0)]
  ELSE IF res = <<>> THEN [spt |-> NilSpt, err |-> Err("InvalidParameter", "resource", 0)]
  ELSE [spt |-> [nil |-> FALSE, clientID |-> clientID, secret |-> secret,
                 resource |-> res, token |-> ZeroToken, manual |-> FALSE],
        err |-> NoError]

\* adal.NewServicePrincipalTokenFromManualToken
NewServicePrincipalTokenFromManualToken(cfg, clientID, res, token) ==
  IF clientID = "" THEN [spt |-> NilSpt, err |-> Err("InvalidParameter", "clientID", 0)]
  ELSE IF res = <<>> THEN [spt |-> NilSpt, err |-> Err("InvalidParameter", "resource", 0)]
  ELSE IF token = ZeroToken THEN [spt |-> NilSpt, err |-> Err("InvalidParameter", "token", 0)]
  ELSE [spt |-> [nil |-> FALSE, clientID |-> clientID, secret |-> "",
                 resource |-> res, token |-> token, manual |-> TRUE],
        err |-> NoError]

----------------------------------------------------------------------------
(* oauth.go *)

\* Mutant: an unresolvable name falls back to the public cloud.
ParseAzureEnvironment_Fallback(cloudName, file) ==
  LET r == EnvironmentFromName(cloudName, file)
  IN IF cloudName = "" \/ r.err # NoError
       THEN [env |-> PublicCloud, err |-> NoError]
       ELSE r

ParseAzureEnvironment(cloudName, file) ==
  IF cloudName = ""
    THEN [env |-> PublicCloud, err |-> NoError]
    ELSE EnvironmentFromName(cloudName, file)

\* kvEndPoint[len(kvEndPoint)-1] indexes out of range.
IndexPanics(kvEndPoint) == Len(kvEndPoint) = 0

\* Mutant: the last character is dropped whatever it is.
StripTrailingSlash_Always(kvEndPoint) ==
  SubSeq(kvEndPoint, 1, Len(kvEndPoint) - 1)

\* The strip of GetKeyvaultToken, for a non-empty kvEndPoint.
StripTrailingSlash(kvEndPoint) ==
  IF kvEndPoint[Len(kvEndPoint)] = Sep
    THEN SubSeq(kvEndPoint, 1, Len(kvEndPoint) - 1)
    ELSE kvEndPoint

\* The strip as a function of any endpoint string, the panic included.
Normalize(e) ==
  IF IndexPanics(e) THEN [panic |-> TRUE, val |-> <<>>]
                    ELSE [panic |-> FALSE, val |-> StripTrailingSlash(e)]

\* Mutant: the secret is never looked at.
SecretProvided_Ignored(aADClientSecret) == TRUE

\* if len(aADClientSecret) > 0
SecretProvided(aADClientSecret) == aADClientSecret # ""

\* if &token == nil || clientID == "": the address of a local is never nil.
NmiIncomplete(token, clientID) == FALSE \/ clientID = ""

\* Mutant: the message carries http.StatusOK instead of the status received.
NmiStatusError_Constant(statusCode) == Err("BrokerResponseError", "", StatusOK)

\* fmt.Errorf("nmi response failed with status code: %d", resp.StatusCode)
NmiStatusError(statusCode) == Err("BrokerResponseError", "", statusCode)

\* fmt.Errorf("No credentials provided for AAD application %s", aADClientID)
NoCredentialsError(aADClientID) == Err("MissingCredential", aADClientID, 0)

\* The GET request to the broker.
NmiRequest(res, podname, podns) ==
  [to |-> "nmi", method |-> "GET", endpoint |-> nmiendpoint, resource |-> res,
   podns |-> podns, podname |-> podname]

\* The two fmt.Printf calls.
VerboseLogging(token, clientID) ==
  << [label |-> "accesstoken", value |-> token.AccessToken],
     [label |-> "clientid", value |-> clientID] >>

\* Mutant: a supplied secret is used before the managed identity is tried.
SptBegin_SecretFirst(tenantId, environ, res, useIntegratedIdentity, aADClientSecret, aADClientID, podname, podns) ==
  LET oc == NewOAuthConfig(environ.ActiveDirectoryEndpoint, tenantId)
      pending == [blocked |-> FALSE, cfg |-> oc.cfg, spt |-> NilSpt,
                  err |-> NoError, glog |-> <<>>, net |-> <<>>]
  IN IF oc.err # NoError
       THEN [pending EXCEPT !.err = Err("OAuthConfigError", "", 0)]
     ELSE IF SecretProvided(aADClientSecret)
       THEN LET r == NewServicePrincipalToken(oc.cfg, aADClientID, aADClientSecret, res)
            IN [pending EXCEPT !.spt = r.spt, !.err = r.err,
                  !.glog = << [level |-> 2, msg |-> "azure: using client_id+client_secret to retrieve access token"] >>]
     ELSE IF useIntegratedIdentity
       THEN [pending EXCEPT !.blocked = TRUE,
               !.glog = << [level |-> 0, msg |-> "azure: using managed identity extension to retrieve access token"] >>,
               !.net = << NmiRequest(res, podname, podns) >>]
     ELSE [pending EXCEPT !.err = NoCredentialsError(aADClientID)]

\* GetServicePrincipalToken up to client.Do, or to its return when it makes
\* no request.
SptBegin(tenantId, environ, res, useIntegratedIdentity, aADClientSecret, aADClientID, podname, podns) ==
  LET oc == NewOAuthConfig(environ.ActiveDirectoryEndpoint, tenantId)
      pending == [blocked |-> FALSE, cfg |-> oc.cfg, spt |-> NilSpt,
                  err |-> NoError, glog |-> <<>>, net |-> <<>>]
  IN IF oc.err # NoError
       THEN [pending EXCEPT !.err = Err("OAuthConfigError", "", 0)]
     ELSE IF useIntegratedIdentity
       THEN [pending EXCEPT !.blocked = TRUE,
               !.glog = << [level |-> 0, msg |-> "azure: using managed identity extension to retrieve access token"] >>,
               !.net = << NmiRequest(res, podname, podns) >>]
     ELSE IF SecretProvided(aADClientSecret)
       THEN LET r == NewServicePrincipalToken(oc.cfg, aADClientID, aADClientSecret, res)
            IN [pending EXCEPT !.spt = r.spt, !.err = r.err,
                  !.glog = << [level |-> 2, msg |-> "azure: using client_id+client_secret to retrieve access token"] >>]
     ELSE [pending EXCEPT !.err = NoCredentialsError(aADClientID)]

\* GetServicePrincipalToken from the return of client.Do on.
SptEnd(cfg, res, r) ==
  LET done == [panic |-> FALSE, spt |-> NilSpt, err |-> NoError, stdout |-> <<>>]
  IN IF r.kind = "transportError"
       THEN [done EXCEPT !.err = Err("BrokerTransportError", "", 0)]
     ELSE IF r.status = StatusOK
       THEN CASE r.body.kind = "unreadable" ->
                   [done EXCEPT !.err = Err("BodyReadError", "", 0)]
              [] r.body.kind = "malformed" ->
                   [done EXCEPT !.err = Err("BrokerDecodeError", "", 0)]
              [] r.body.kind = "null" ->
                   [done EXCEPT !.panic = TRUE]
              [] OTHER ->
                   LET token == r.body.token
                       clientID == r.body.clientid
                       out == VerboseLogging(token, clientID)
                   IN IF NmiIncomplete(token, clientID)
                        THEN [done EXCEPT !.stdout = out,
                                !.err = Err("BrokerIncompleteResponse", "", 0)]
                        ELSE LET m == NewServicePrincipalTokenFromManualToken(
                                         cfg, clientID, res, token)
                             IN [done EXCEPT !.stdout = out, !.spt = m.spt,
                                               !.err = m.err]
     ELSE [done EXCEPT !.err = NmiStatusError(r.status)]

\* What both entry points do with the result of GetServicePrincipalToken.
EntryReturn(spt, err) ==
  IF err # NoError THEN [authorizer |-> NilSpt, err |-> err]
                   ELSE [authorizer |-> spt, err |-> NoError]

----------------------------------------------------------------------------
Init ==
  /\ config \in [cloudName : CloudNames, tenantId : TenantIds,
                 useIntegratedIdentity : BOOLEAN,
                 aADClientSecret : ClientSecrets, aADClientID : ClientIDs,
                 podname : {"echo-apple"}, podns : {"default"}]
  /\ envFile \in IF config.cloudName = StackCloudName
                   THEN {NoFile} \cup StackEnvironments
                   ELSE {NoFile}
  /\ pc = "start"
  /\ entry = ""
  /\ env = ZeroEnvironment
  /\ sptCalled = FALSE
  /\ resource = <<>>
  /\ oauthConfig = NilOAuthConfig
  /\ resp = NoResp
  /\ net = <<>>
  /\ stdout = <<>>
  /\ glog = <<>>
  /\ ret = NoRet
  /\ prev = NoPrev

\* The caller may call when no call is in progress; the call that just
\* returned becomes the previous one.
CallerReady ==
  /\ pc \in {"start", "returned"}
  /\ prev' = IF pc = "returned"
               THEN [valid |-> TRUE, entry |-> entry, resp |-> resp, ret |-> ret,
                     sptCalled |-> sptCalled, net |-> net, stdout |-> stdout,
                     glog |-> glog]
               ELSE prev

\* The entry point returns err without calling GetServicePrincipalToken.
ReturnEarly(e, pe) ==
  /\ pc' = "returned"
  /\ entry' = e
  /\ env' = pe.env
  /\ sptCalled' = FALSE
  /\ resource' = <<>>
  /\ oauthConfig' = NilOAuthConfig
  /\ resp' = NoResp
  /\ net' = <<>>
  /\ stdout' = <<>>
  /\ glog' = <<>>
  /\ ret' = [authorizer |-> NilSpt, err |-> pe.err]

\* The entry point calls GetServicePrincipalToken with resource res.
Acquire(e, environ, res) ==
  LET b == SptBegin(config.tenantId, environ, res, config.useIntegratedIdentity,
                    config.aADClientSecret, config.aADClientID,
                    config.podname, config.podns)
  IN /\ pc' = IF b.blocked THEN "clientDo" ELSE "returned"
     /\ entry' = e
     /\ env' = environ
     /\ sptCalled' = TRUE
     /\ resource' = res
     /\ oauthConfig' = b.cfg
     /\ resp' = NoResp
     /\ net' = b.net
     /\ stdout' = <<>>
     /\ glog' = b.glog
     /\ ret' = IF b.blocked THEN NoRet ELSE EntryReturn(b.spt, b.err)

GetManagementToken ==
  /\ CallerReady
  /\ LET pe == ParseAzureEnvironment(config.cloudName, envFile)
     IN IF pe.err # NoError
          THEN ReturnEarly("GetManagementToken", pe)
          ELSE Acquire("GetManagementToken", pe.env, pe.env.ResourceManagerEndpoint)
  /\ UNCHANGED <<config, envFile>>

GetKeyvaultToken ==
  /\ CallerReady
  /\ LET pe == ParseAzureEnvironment(config.cloudName, envFile)
     IN IF pe.err # NoError
          THEN ReturnEarly("GetKeyvaultToken", pe)
        ELSE IF IndexPanics(pe.env.KeyVaultEndpoint)
          THEN /\ pc' = "panicked"
               /\ entry' = "GetKeyvaultToken"
               /\ env' = pe.env
               /\ sptCalled' = FALSE
               /\ resource' = <<>>
               /\ oauthConfig' = NilOAuthConfig
               /\ resp' = NoResp
               /\ net' = <<>>
               /\ stdout' = <<>>
               /\ glog' = <<>>
               /\ ret' = NoRet
        ELSE Acquire("GetKeyvaultToken", pe.env,
                     StripTrailingSlash(pe.env.KeyVaultEndpoint))
  /\ UNCHANGED <<config, envFile>>

\* The broker answers the pending request.
BrokerRespond ==
  /\ pc = "clientDo"
  /\ resp = NoResp
  /\ \E s \in StatusCodes :
       \E b \in IF s = StatusOK THEN Bodies ELSE {NoBody} :
         resp' = HttpResponse(s, b)
  /\ UNCHANGED <<config, envFile, pc, entry, env, sptCalled, resource,
                 oauthConfig, net, stdout, glog, ret, prev>>

\* The connection to the broker fails.
BrokerTransportError ==
  /\ pc = "clientDo"
  /\ resp = NoResp
  /\ resp' = TransportError
  /\ UNCHANGED <<config, envFile, pc, entry, env, sptCalled, resource,
                 oauthConfig, net, stdout, glog, ret, prev>>

\* The broker accepts the connection and never answers.
BrokerHang ==
  /\ pc = "clientDo"
  /\ resp = NoResp
  /\ resp' = Hung
  /\ UNCHANGED <<config, envFile, pc, entry, env, sptCalled, resource,
                 oauthConfig, net, stdout, glog, ret, prev>>

\* client.Do returns and the call runs to its end.  http.Client{} has no
\* Timeout and the request no context: only an answer or a transport error
\* ends client.Do.
ClientDoReturn ==
  /\ pc = "clientDo"
  /\ resp.kind \in {"http", "transportError"}
  /\ LET d == SptEnd(oauthConfig, resource, resp)
     IN /\ pc' = IF d.panic THEN "panicked" ELSE "returned"
        /\ stdout' = d.stdout
        /\ ret' = IF d.panic THEN NoRet ELSE EntryReturn(d.spt, d.err)
  /\ UNCHANGED <<config, envFile, entry, env, sptCalled, resource, oauthConfig,
                 resp, net, glog, prev>>

Next ==
  \/ GetManagementToken
  \/ GetKeyvaultToken
  \/ BrokerRespond
  \/ BrokerTransportError
  \/ BrokerHang
  \/ ClientDoReturn

Spec == Init /\ [][Next]_vars

\* The program's own steps are taken when enabled, and a broker that has not
\* chosen to hang answers or fails; nothing obliges the caller to call again.
FairSpec ==
  /\ Spec
  /\ WF_vars(ClientDoReturn)
  /\ WF_vars(BrokerRespond \/ BrokerTransportError)

----------------------------------------------------------------------------
(* Properties *)

Returned == pc = "returned"

Delegated == config.useIntegratedIdentity

Answered == resp.kind \in {"http", "transportError"}

OkObject(r) == r.kind = "http" /\ r.status = StatusOK /\ r.body.kind = "object"

\* C1, as claimed: every acquisition with useIntegratedIdentity false and an
\* empty client secret fails with MissingCredential naming the client id,
\* and no outbound call has been made when it returns.
C1_MissingCredentialAlways ==
  (Returned /\ sptCalled /\ ~Delegated /\ config.aADClientSecret = "")
    => /\ ret.authorizer.nil
       /\ ret.err.kind = "MissingCredential"
       /\ ret.err.name = config.aADClientID
       /\ net = <<>>

\* C1, amended: such an acquisition fails without any outbound call, with
\* MissingCredential naming the client id when the OAuth configuration could
\* be constructed, and with the configuration error when it could not.
C1_MissingCredentialAfterConfig ==
  (Returned /\ sptCalled /\ ~Delegated /\ config.aADClientSecret = "")
    => /\ ret.authorizer.nil
       /\ net = <<>>
       /\ IF config.tenantId \in MalformedTenants
            THEN ret.err.kind = "OAuthConfigError" /\ oauthConfig.nil
            ELSE /\ ret.err.kind = "MissingCredential"
                 /\ ret.err.name = config.aADClientID

C1_Witness ==
  /\ Returned /\ sptCalled /\ ~Delegated
  /\ config.aADClientSecret = ""
  /\ config.aADClientID = "app1"
  /\ ret.err = Err("MissingCredential", "app1", 0)
  /\ net = <<>>

\* C2: on the delegated path a credential is returned if and only if the
\* broker answered 200 with a decodable body whose access token and client
\* identifier are both non-empty; otherwise an error and no credential, an
\* empty client identifier being reported as BrokerIncompleteResponse.
C2_CredentialIffCompleteAnswer ==
  (Returned /\ Delegated /\ Answered)
    => /\ ~ret.authorizer.nil <=>
            (OkObject(resp) /\ resp.body.token.AccessToken # ""
                            /\ resp.body.clientid # "")
       /\ ret.authorizer.nil <=> ret.err # NoError
       /\ (OkObject(resp) /\ resp.body.clientid = "")
            => ret.err.kind = "BrokerIncompleteResponse"

\* C3: a broker response with status s other than 200 makes the acquisition
\* fail with BrokerResponseError carrying exactly s, and the entry point
\* returns a nil authorizer with that error.
C3_StatusErrorCarriesCode ==
  (Returned /\ resp.kind = "http" /\ resp.status # StatusOK)
    => /\ ret.authorizer.nil
       /\ ret.err.kind = "BrokerResponseError"
       /\ ret.err.code = resp.status

C3_Witness ==
  /\ Returned /\ Delegated
  /\ entry = "GetKeyvaultToken"
  /\ resp.kind = "http" /\ resp.status = 404
  /\ ret.authorizer.nil
  /\ ret.err.code = 404

\* C4: two delegated calls through the same entry point whose broker answers
\* differ only in the access token leave the same content in every output
\* sink: standard output, the log and the error returned.
C4_OutputIndependentOfToken ==
  (Returned /\ prev.valid /\ prev.entry = entry
     /\ OkObject(resp) /\ OkObject(prev.resp)
     /\ resp = [prev.resp EXCEPT !.body.token.AccessToken =
                                    resp.body.token.AccessToken])
    => /\ stdout = prev.stdout
       /\ glog = prev.glog
       /\ ret.err = prev.ret.err

\* The secrets-store endpoint has at most one trailing separator, and some
\* character before it.
AtMostOneTrailingSep(e) ==
  \/ Len(e) = 0
  \/ e[Len(e)] # Sep
  \/ Len(e) >= 2 /\ e[Len(e) - 1] # Sep

\* C5, as claimed: for every secrets-store endpoint e the resource is
\* normalize(e), and normalizing it again yields the same string.
C5_NormalizeIdempotent ==
  (entry = "GetKeyvaultToken" /\ sptCalled)
    => LET n1 == Normalize(env.KeyVaultEndpoint)
           n2 == Normalize(n1.val)
       IN ~n1.panic /\ resource = n1.val /\ ~n2.panic /\ n2.val = n1.val

\* C5, amended: normalization strips exactly one trailing separator, and is
\* idempotent on every endpoint that ends in at most one separator with some
\* character before it.
C5_NormalizeIdempotentSingleSep ==
  (entry = "GetKeyvaultToken" /\ sptCalled)
    => LET e == env.KeyVaultEndpoint
           n1 == Normalize(e)
           n2 == Normalize(n1.val)
       IN /\ ~n1.panic /\ resource = n1.val
          /\ resource = IF e[Len(e)] = Sep THEN SubSeq(e, 1, Len(e) - 1) ELSE e
          /\ AtMostOneTrailingSep(e) => (~n2.panic /\ n2.val = n1.val)

C5_Witness ==
  /\ entry = "GetKeyvaultToken" /\ sptCalled
  /\ env.KeyVaultEndpoint = <<"https://vault.azure.net", Sep>>
  /\ resource = <<"https://vault.azure.net">>
  /\ Normalize(resource) = [panic |-> FALSE, val |-> resource]

\* C6: for the same configuration and the same broker answer the two entry
\* points request the management endpoint and the normalized secrets-store
\* endpoint, the two requests carry different resource parameters, and in
\* every other respect (calls made, success or error kind) they agree.
C6_EntryPointsDifferOnlyInResource ==
  (prev.valid /\ prev.entry # entry /\ pc \in {"returned", "panicked"}
     /\ resp = prev.resp)
    => /\ Returned
       /\ sptCalled = prev.sptCalled
       /\ Len(net) = Len(prev.net)
       /\ \A i \in 1..Len(net) :
            /\ net[i].to = prev.net[i].to
            /\ net[i].resource # prev.net[i].resource
            /\ net[i].resource = resource
       /\ sptCalled =>
            resource = IF entry = "GetManagementToken"
                         THEN env.ResourceManagerEndpoint
                         ELSE Normalize(env.KeyVaultEndpoint).val
       /\ ret.err.kind = prev.ret.err.kind
       /\ ret.authorizer.nil = prev.ret.authorizer.nil

RecognizedCloudNames == {"", "AZUREPUBLICCLOUD", "AZURECHINACLOUD", StackCloudName}

\* C7: the empty cloud name resolves to the public cloud; an unrecognized
\* name fails with UnknownEnvironment; and when resolution fails the entry
\* point returns that error with a nil authorizer, having constructed no
\* OAuth configuration and made no outbound call.
C7_EnvironmentGate ==
  entry # "" =>
    /\ config.cloudName = "" => env = PublicCloud
    /\ config.cloudName \notin RecognizedCloudNames =>
         /\ Returned
         /\ ret.err = Err("UnknownEnvironment", config.cloudName, 0)
    /\ (Returned /\ ret.err.kind \in {"UnknownEnvironment", "EnvironmentFileError"}) =>
         /\ ret.authorizer.nil
         /\ ~sptCalled
         /\ oauthConfig.nil
         /\ net = <<>>
    /\ (config.cloudName = StackCloudName /\ envFile = NoFile) =>
         /\ Returned
         /\ ret.err.kind = "EnvironmentFileError"

C7_Witness ==
  /\ Returned
  /\ entry = "GetKeyvaultToken"
  /\ config.cloudName = "unknown-xyz"
  /\ ret = [authorizer |-> NilSpt, err |-> Err("UnknownEnvironment", "unknown-xyz", 0)]
  /\ oauthConfig.nil /\ net = <<>>

\* C8: every call blocked in the request to the broker eventually leaves
\* it, also when the broker accepts the connection and never answers.
C8_BrokerCallEnds == (pc = "clientDo") ~> (pc # "clientDo")

\* C9: no input makes an entry point panic: every call ends by returning an
\* authorizer or an error.
C9_NoPanic == pc # "panicked"

\* The error a failed broker exchange is reported as.
BrokerFailure(r) ==
  CASE r.kind = "transportError" -> "BrokerTransportError"
    [] r.kind = "http" /\ r.status # StatusOK -> "BrokerResponseError"
    [] r.kind = "http" /\ r.status = StatusOK /\ r.body.kind = "unreadable" -> "BodyReadError"
    [] r.kind = "http" /\ r.status = StatusOK /\ r.body.kind = "malformed" -> "BrokerDecodeError"
    [] OkObject(r) /\ r.body.clientid = "" -> "BrokerIncompleteResponse"
    [] OTHER -> "none"

\* C10: with useIntegratedIdentity true a call makes at most one outbound
\* request, to the broker, never builds a credential from the client secret
\* (also when one is supplied), and when the broker exchange fails the
\* caller receives that failure and no credential.
C10_DelegatedChannelIsFinal ==
  Delegated =>
    /\ Len(net) <= 1
    /\ \A i \in 1..Len(net) : net[i].to = "nmi" /\ net[i].endpoint = nmiendpoint
    /\ ~ret.authorizer.nil => (ret.authorizer.manual /\ ret.authorizer.secret = "")
    /\ \A i \in 1..Len(glog) : glog[i].level = 0
    /\ (Returned /\ sptCalled /\ ~oauthConfig.nil) => (Len(net) = 1 /\ Answered)
    /\ (Returned /\ Answered /\ BrokerFailure(resp) # "none") =>
         /\ ret.authorizer.nil
         /\ ret.err.kind = BrokerFailure(resp)

C10_Witness ==
  /\ Delegated /\ Returned
  /\ config.aADClientSecret = "s3cret"
  /\ resp.kind = "http" /\ resp.status = 404
  /\ Len(net) = 1
  /\ ret.authorizer.nil
  /\ ret.err.kind = "BrokerResponseError"

====
